---- MODULE Spec2Model ----
(***************************************************************************)
(* Model of src/src/App.jsx: the App component (collection fetch, hero     *)
(* visibility and motion gate, rendered output), the Copyable widget and   *)
(* the formatAddress function.                                             *)
(*                                                                         *)
(* JavaScript strings that the code slices are sequences of one-character  *)
(* strings; the other strings are TLA+ strings.  A JSON value is a record  *)
(* [kind |-> "null"] or [kind |-> "object", fields |-> f], f a function    *)
(* from the field names present in the object to their values.             *)
(***************************************************************************)
EXTENDS Integers, Sequences, FiniteSets, TLC

VARIABLES
    \* ---- App (src/src/App.jsx:79-124) ----
    phase,            \* "rendered": first render committed, effects not yet run; "mounted"
    mqMatches,        \* window.matchMedia('(prefers-reduced-motion: reduce)').matches
    reduced,          \* usePrefersReducedMotion: useState(false)        (prefersReduced)
    performanceMode,  \* useState(false), the user toggle
    heroInView,       \* useState(false)
    observing,        \* the IntersectionObserver is connected to the hero element
    fetchState,       \* "idle", "pending", "parsing", "done", "failed": the promise chain of line 116
    res,              \* the Response the fetch resolved with (NoResponse before)
    collection,       \* useState(null)
    splineRequested,  \* import('@splinetool/react-spline') has been issued
    dom,              \* what the last render put on the page
    \* ---- Copyable (src/src/App.jsx:56-77), one instance ----
    copied,           \* useState(false)
    pendingWrites,    \* navigator.clipboard.writeText promises not yet settled
    timers,           \* pending setTimeout callbacks, oldest first: ms left until due
    lastWrite,        \* how the most recently settled clipboard write ended
    \* ---- formatAddress (src/src/App.jsx:36-40) ----
    fmtIn,            \* the argument
    fmtOut,           \* the value returned
    \* ---- history ----
    userClicked,      \* the user has clicked the performance toggle at least once
    fulfilled,        \* some clipboard write has been fulfilled
    clickAge,         \* ms since the most recent click on Copy, counted up to 1400
    last              \* the handler that ran last and performanceMode before it ran

appVars  == <<phase, mqMatches, reduced, performanceMode, heroInView, observing,
              fetchState, res, collection, splineRequested, dom, userClicked>>
copyVars == <<copied, pendingWrites, timers, lastWrite>>
fmtVars  == <<fmtIn, fmtOut>>
hist     == <<fulfilled, clickAge>>
vars     == <<appVars, copyVars, fmtVars, hist, last>>

----------------------------------------------------------------------------
(* Bounds of the model *)

MaxEntries == 2      \* entries delivered to one IntersectionObserver callback
MaxPending == 2      \* clipboard writes in flight at once
MaxTimers  == 2      \* revert timers pending at once
TickMs     == 700    \* granularity of the clock
MaxLen     == 14     \* longest formatAddress argument

----------------------------------------------------------------------------
(* Strings *)

Str0x20a0 ==
    <<"0","x","2","0","a","0","c","c","3","d","8","6","a","6","f","b","f","8","0","3","d",
      "4","b","4","4","8","b","2","0","0","d","f","3","2","8","8","a","9","1","0","4","b">>

FetchedAddress ==
    <<"0","x","f","e","e","d","0","0","0","0","0","0","0","0","0","0","0","0","0","0","0",
      "0","0","0","0","0","0","0","0","0","0","0","0","0","0","0","0","0","b","e","e","f">>

RevertDelay == 1400            \* setTimeout(() => setCopied(false), 1400)

Ellipsis == "U+2026"           \* the one character of src/src/App.jsx:39

\* String.prototype.slice(start, end): negative indexes count from the end,
\* both are clamped to 0..length; positions are 0-based, end exclusive.
Clamp(i, len) == IF i < 0 THEN (IF len + i < 0 THEN 0 ELSE len + i)
                 ELSE (IF i > len THEN len ELSE i)

slice(s, start, end) ==
    LET from == Clamp(start, Len(s))
        to   == Clamp(end, Len(s))
    IN  IF to <= from THEN <<>> ELSE SubSeq(s, from + 1, to)

\* Variant: a tail window of 6 characters
formatAddress_slice6(addr) ==
    IF Len(addr) = 0 THEN addr
    ELSE IF Len(addr) <= 12 THEN addr
    ELSE slice(addr, 0, 6) \o <<Ellipsis>> \o slice(addr, -6, Len(addr))

formatAddress(addr) ==
    IF Len(addr) = 0 THEN addr                       \* !addr
    ELSE IF Len(addr) <= 12 THEN addr
    ELSE slice(addr, 0, 6) \o <<Ellipsis>> \o slice(addr, -4, Len(addr))

----------------------------------------------------------------------------
(* JSON values and responses *)

Fields == {"network", "contract_address", "opensea_url"}

FetchedValue(k) ==
    IF k = "contract_address" THEN FetchedAddress
    ELSE IF k = "network" THEN "Ethereum"
    ELSE "https://opensea.io/collection/other"

JsonNull      == [kind |-> "null"]
JsonObject(f) == [kind |-> "object", fields |-> f]
JsonObjects   == { JsonObject([k \in S |-> FetchedValue(k)]) : S \in SUBSET Fields }

InvalidBody == [kind |-> "invalid"]                 \* a body JSON.parse rejects
Bodies      == JsonObjects \cup {JsonNull, InvalidBody}
Statuses    == {200, 500}
Responses   == [status : Statuses, body : Bodies]
NoResponse  == [status |-> 0, body |-> InvalidBody]

\* collection?.field: undefined on null and on an object without the field
HasField(c, k) == c.kind = "object" /\ k \in DOMAIN c.fields

\* collection?.network || 'Polygon' and its siblings
NetworkOf(c) == IF HasField(c, "network") /\ c.fields["network"] # ""
                THEN c.fields["network"] ELSE "Polygon"

fullAddress(c) == IF HasField(c, "contract_address") /\ Len(c.fields["contract_address"]) > 0
                  THEN c.fields["contract_address"] ELSE Str0x20a0

OpenseaOf(c) == IF HasField(c, "opensea_url") /\ c.fields["opensea_url"] # ""
                THEN c.fields["opensea_url"]
                ELSE "https://opensea.io/collection/the-cluckers-collective"

----------------------------------------------------------------------------
(* Render *)

\* Variant: the gate without the reduced-motion signal
enable3D_ignoresReduced(pm, inView, red) == pm /\ inView

\* const enable3D = performanceMode && heroInView && !prefersReduced

enable3D(pm, inView, red) == pm /\ inView /\ ~red

\* Variant: a static import, as in the earlier version of the component
LazySpline_eager(requested, e3d) == TRUE

\* React.lazy calls the import the first time LazySpline is rendered

LazySpline(requested, e3d) == requested \/ e3d

Render(c, pm, inView, red) ==
    [ hero        |-> IF enable3D(pm, inView, red) THEN "spline" ELSE "static",
      network     |-> NetworkOf(c),                  \* Stat, line 170
      copyText    |-> fullAddress(c),                \* Copyable text, lines 172, 233
      copyDisplay |-> formatAddress(fullAddress(c)), \* shortAddress, line 172
      heroLink    |-> OpenseaOf(c),                  \* line 177
      detailsNetwork |-> NetworkOf(c),               \* line 228
      detailsAddress |-> fullAddress(c),             \* line 233
      detailsLink    |-> OpenseaOf(c) ]              \* line 238

\* Every state update re-renders App with the new state
Rerender ==
    /\ dom' = Render(collection', performanceMode', heroInView', reduced')
    /\ splineRequested' =
         LazySpline(splineRequested, enable3D(performanceMode', heroInView', reduced'))

Did(op) == last' = [op |-> op, pmBefore |-> performanceMode]

----------------------------------------------------------------------------
(* App *)

InitApp ==
    /\ phase = "rendered"
    /\ mqMatches \in BOOLEAN
    /\ reduced = FALSE
    /\ performanceMode = FALSE
    /\ heroInView = FALSE
    /\ observing = FALSE
    /\ fetchState = "idle"
    /\ res = NoResponse
    /\ collection = JsonNull
    /\ splineRequested = LazySpline(FALSE, enable3D(FALSE, FALSE, FALSE))
    /\ dom = Render(JsonNull, FALSE, FALSE, FALSE)
    /\ userClicked = FALSE
    /\ last = [op |-> "render", pmBefore |-> FALSE]

\* Variants: the effect left out; setPerformanceMode(!prefersReduced)
ReducedMotionEffect_noForce(red, pm) == pm

ReducedMotionEffect_follow(red, pm) == ~red

\* useEffect(() => { if (prefersReduced) setPerformanceMode(false) }, [prefersReduced])
ReducedMotionEffect(red, pm) == IF red THEN FALSE ELSE pm

\* The effects of the first commit, in order: update() and the subscription
\* (44-48), observer.observe(el) (106), the reduced-motion effect (112), the
\* fetch (116); then the re-render update() caused and its effect.
Mount ==
    /\ phase = "rendered"
    /\ phase' = "mounted"
    /\ reduced' = mqMatches
    /\ observing' = TRUE
    /\ performanceMode' = ReducedMotionEffect(reduced', ReducedMotionEffect(reduced, performanceMode))
    /\ fetchState' = "pending"
    /\ UNCHANGED <<mqMatches, heroInView, res, collection, userClicked>>
    /\ Rerender
    /\ Did("mount")
    /\ UNCHANGED <<copyVars, fmtVars, hist>>

\* onClick={() => setPerformanceMode(v => !v)}
ToggleClick ==
    /\ phase = "mounted"
    /\ performanceMode' = ~performanceMode
    /\ userClicked' = TRUE
    /\ UNCHANGED <<phase, mqMatches, reduced, heroInView, observing, fetchState, res, collection>>
    /\ Rerender
    /\ Did("click")
    /\ UNCHANGED <<copyVars, fmtVars, hist>>

\* for (const entry of entries) { if (entry.isIntersecting) { ...; break } }
RECURSIVE AnyIntersecting(_)
AnyIntersecting(entries) ==
    IF entries = <<>> THEN FALSE
    ELSE IF Head(entries) THEN TRUE
    ELSE AnyIntersecting(Tail(entries))

EntryLists == UNION { [1..n -> BOOLEAN] : n \in 1..MaxEntries }

\* Variant: heroInView follows the last entry and the observer stays connected
IntersectionCallback_tracking(entries) ==
    /\ observing
    /\ heroInView' = entries[Len(entries)]
    /\ observing' = TRUE
    /\ UNCHANGED <<phase, mqMatches, reduced, performanceMode, fetchState, res, collection,
                   userClicked>>
    /\ Rerender
    /\ Did("intersect")
    /\ UNCHANGED <<copyVars, fmtVars, hist>>

IntersectionCallback(entries) ==
    /\ observing
    /\ IF AnyIntersecting(entries)
       THEN heroInView' = TRUE /\ observing' = FALSE     \* setHeroInView(true); observer.disconnect()
       ELSE UNCHANGED <<heroInView, observing>>
    /\ UNCHANGED <<phase, mqMatches, reduced, performanceMode, fetchState, res, collection,
                   userClicked>>
    /\ Rerender
    /\ Did("intersect")
    /\ UNCHANGED <<copyVars, fmtVars, hist>>

\* The OS setting changes.  Once mounted the 'change' listener runs update():
\* setReduced(mq.matches); the re-render runs the effect of lines 110-113,
\* whose dependency prefersReduced has changed.
MotionChange ==
    /\ mqMatches' = ~mqMatches
    /\ IF phase = "mounted"
       THEN /\ reduced' = mqMatches'
            /\ performanceMode' = IF reduced' # reduced
                                  THEN ReducedMotionEffect(reduced', performanceMode)
                                  ELSE performanceMode
       ELSE UNCHANGED <<reduced, performanceMode>>
    /\ UNCHANGED <<phase, heroInView, observing, fetchState, res, collection, userClicked>>
    /\ Rerender
    /\ Did("motion")
    /\ UNCHANGED <<copyVars, fmtVars, hist>>

\* fetch(...) settles: it rejects on a network failure and resolves with the
\* Response whatever its status; .then(res => res.json()) starts reading it.
FetchSettles(ok, r) ==
    /\ fetchState = "pending"
    /\ IF ok
       THEN fetchState' = "parsing" /\ res' = r
       ELSE fetchState' = "failed" /\ res' = res          \* .catch(() => {})
    /\ UNCHANGED <<phase, mqMatches, reduced, performanceMode, heroInView, observing,
                   collection, userClicked>>
    /\ Rerender
    /\ Did("fetch")
    /\ UNCHANGED <<copyVars, fmtVars, hist>>

\* res.json() settles: it rejects on a body that is not JSON, otherwise
\* .then(setCollection) stores the parsed value.
JsonSettles ==
    /\ fetchState = "parsing"
    /\ IF res.body = InvalidBody
       THEN fetchState' = "failed" /\ collection' = collection   \* .catch(() => {})
       ELSE fetchState' = "done" /\ collection' = res.body       \* setCollection
    /\ UNCHANGED <<phase, mqMatches, reduced, performanceMode, heroInView, observing,
                   res, userClicked>>
    /\ Rerender
    /\ Did("json")
    /\ UNCHANGED <<copyVars, fmtVars, hist>>

----------------------------------------------------------------------------
(* Copyable *)

InitCopy ==
    /\ copied = FALSE
    /\ pendingWrites = 0
    /\ timers = <<>>
    /\ lastWrite = "none"
    /\ fulfilled = FALSE
    /\ clickAge = RevertDelay

\* const copy = async () => { try { await navigator.clipboard.writeText(text) ...
\* The click starts the write; the function is suspended at the await.
Activate ==
    /\ phase = "mounted"
    /\ pendingWrites < MaxPending
    /\ pendingWrites' = pendingWrites + 1
    /\ UNCHANGED <<copied, timers, lastWrite>>
    /\ clickAge' = 0
    /\ Did("copy")
    /\ UNCHANGED <<appVars, fmtVars, fulfilled>>

\* Variant: the indicator set on success but no revert timer started
AfterWrite_noTimer(ok, c, ts) ==
    IF ok THEN [copied |-> TRUE, timers |-> ts]
    ELSE [copied |-> c, timers |-> ts]

\* Variant: the indicator set without waiting for the outcome of the write
AfterWrite_always(ok, c, ts) == [copied |-> TRUE, timers |-> Append(ts, RevertDelay)]

\* The write settles.  Fulfilled: setCopied(true); setTimeout(..., 1400).
\* Rejected: catch {} and nothing else.

AfterWrite(ok, c, ts) ==
    IF ok THEN [copied |-> TRUE, timers |-> Append(ts, RevertDelay)]
    ELSE [copied |-> c, timers |-> ts]

WriteSettles(ok) ==
    /\ pendingWrites > 0
    /\ ok => Len(timers) < MaxTimers
    /\ pendingWrites' = pendingWrites - 1
    /\ copied' = AfterWrite(ok, copied, timers).copied
    /\ timers' = AfterWrite(ok, copied, timers).timers
    /\ lastWrite' = IF ok THEN "fulfilled" ELSE "rejected"
    /\ fulfilled' = (fulfilled \/ ok)
    /\ UNCHANGED clickAge
    /\ Did("write")
    /\ UNCHANGED <<appVars, fmtVars>>

\* A timer whose delay has elapsed runs () => setCopied(false).  All timers
\* have the same delay, so they run in the order they were set.
TimerFires ==
    /\ timers # <<>>
    /\ Head(timers) = 0
    /\ copied' = FALSE
    /\ timers' = Tail(timers)
    /\ UNCHANGED <<pendingWrites, lastWrite>>
    /\ Did("timer")
    /\ UNCHANGED <<appVars, fmtVars, hist>>

\* TickMs milliseconds pass.  A timer never runs early; it may run late.
Elapse(left) == IF left > TickMs THEN left - TickMs ELSE 0

Tick ==
    /\ clickAge < RevertDelay \/ \E i \in 1..Len(timers) : timers[i] > 0
    /\ timers' = [i \in 1..Len(timers) |-> Elapse(timers[i])]
    /\ clickAge' = RevertDelay - Elapse(RevertDelay - clickAge)
    /\ UNCHANGED <<copied, pendingWrites, lastWrite>>
    /\ Did("tick")
    /\ UNCHANGED <<appVars, fmtVars, fulfilled>>

----------------------------------------------------------------------------
(* formatAddress as called *)

Chars   == {"a", "b"}
Strings == UNION { [1..n -> Chars] : n \in 0..MaxLen }
Unset   == <<"unset">>

InitFmt ==
    /\ fmtIn = <<>>
    /\ fmtOut = Unset

Format ==
    /\ fmtOut = Unset
    /\ fmtOut' = formatAddress(fmtIn)
    /\ UNCHANGED <<fmtIn, appVars, copyVars, hist, last>>

----------------------------------------------------------------------------
(* Specifications *)

Init == InitApp /\ InitCopy /\ InitFmt

Next ==
    \/ Mount
    \/ ToggleClick
    \/ \E entries \in EntryLists : IntersectionCallback(entries)
    \/ MotionChange
    \/ \E ok \in BOOLEAN, r \in Responses : FetchSettles(ok, r)
    \/ JsonSettles

Spec == Init /\ [][Next]_vars

\* The page is mounted and then only the Copyable is used
CopyNext ==
    \/ Mount
    \/ Activate
    \/ \E ok \in BOOLEAN : WriteSettles(ok)
    \/ TimerFires
    \/ Tick

CopySpec == Init /\ [][CopyNext]_vars

\* The same, with the event loop running every due timer callback and the
\* clock going on while a timer or the click age has time left
CopyFairSpec == CopySpec /\ WF_vars(TimerFires) /\ WF_vars(Tick)

\* The page with its Copyable in use
PageResponses ==
    { r \in Responses : r.status = 200 /\ r.body = JsonObject([k \in Fields |-> FetchedValue(k)]) }

PageNext ==
    \/ Mount
    \/ ToggleClick
    \/ \E entries \in EntryLists : IntersectionCallback(entries)
    \/ MotionChange
    \/ \E r \in PageResponses : FetchSettles(TRUE, r)
    \/ JsonSettles
    \/ Activate
    \/ \E ok \in BOOLEAN : WriteSettles(ok)
    \/ TimerFires
    \/ Tick

PageSpec == Init /\ [][PageNext]_vars

\* formatAddress on every string of at most MaxLen characters
FormatInit == InitApp /\ InitCopy /\ fmtIn \in Strings /\ fmtOut = Unset

FormatNext == Format

FormatSpec == FormatInit /\ [][FormatNext]_vars

----------------------------------------------------------------------------
(* Properties *)

\* C1: whenever the tracked reduced-motion boolean is true the hero is
\* rendered on the static path, whatever the user toggle and heroInView are.
C1_ReducedForcesStatic == reduced => dom.hero = "static"

\* The user has switched the toggle on while reduced motion is in force
C1_Witness ==
    reduced /\ performanceMode /\ heroInView /\ last.op = "click" /\ dom.hero = "static"

\* C2: the import of the Spline module is issued only by a render in which
\* userToggle AND scrollVisible AND NOT reducedMotion holds, and never in a
\* run without a click on the toggle.
C2_LazyImport ==
    /\ [][(~splineRequested /\ splineRequested')
            => (performanceMode' /\ heroInView' /\ ~reduced')]_vars
    /\ [](splineRequested => userClicked)

C2_Witness == splineRequested /\ dom.hero = "spline"

\* C3: every failing response (network failure, body that is not JSON,
\* non-2xx status) leaves collection at null.
FetchOver == fetchState \in {"done", "failed"}

FailingResponse == res = NoResponse \/ res.body = InvalidBody \/ res.status # 200

C3_FailureLeavesNull == (FetchOver /\ FailingResponse) => collection = JsonNull

\* C4: each displayed field shows the fetched field if present and else its
\* literal fallback, independently of the other fields; after a failed fetch
\* all three show the fallbacks.
Fetched == IF FetchOver /\ ~FailingResponse THEN res.body ELSE JsonNull

Shown(k, fallback) == IF HasField(Fetched, k) THEN Fetched.fields[k] ELSE fallback

C4_IndependentFallbacks ==
    /\ dom.network = Shown("network", "Polygon")
    /\ dom.detailsNetwork = Shown("network", "Polygon")
    /\ dom.copyText = Shown("contract_address", Str0x20a0)
    /\ dom.detailsAddress = Shown("contract_address", Str0x20a0)
    /\ dom.heroLink = Shown("opensea_url", "https://opensea.io/collection/the-cluckers-collective")
    /\ dom.detailsLink = Shown("opensea_url", "https://opensea.io/collection/the-cluckers-collective")

\* C5: the indicator stays true for the full delay counted from the most
\* recent successful activation: when every write has settled, the last one
\* was fulfilled and the last click is less than 1400 ms old, copied is true.
C5_TimerReset ==
    (pendingWrites = 0 /\ lastWrite = "fulfilled" /\ clickAge < RevertDelay) => copied

\* C6: copied becomes true only in the step in which a clipboard write is
\* fulfilled; a rejected write changes neither the indicator nor the timers
\* nor anything rendered; while no write has been fulfilled copied is false.
C6_OnlySuccessSetsCopied ==
    /\ [][(~copied /\ copied')
            => (last'.op = "write" /\ lastWrite' = "fulfilled"
                /\ pendingWrites' = pendingWrites - 1)]_vars
    /\ [][(last'.op = "write" /\ lastWrite' = "rejected")
            => UNCHANGED <<copied, timers, appVars>>]_vars
    /\ [](~fulfilled => (~copied /\ timers = <<>>))

C6_Witness ==
    last.op = "write" /\ lastWrite = "rejected" /\ ~fulfilled /\ ~copied /\ pendingWrites > 0

\* C7: heroInView starts false, is set only by an intersection callback, never
\* goes back to false, and the observer is connected exactly until it is set.
C7_Latch ==
    /\ [](phase = "rendered" => ~heroInView)
    /\ [][heroInView => heroInView']_vars
    /\ [][(~heroInView /\ heroInView') => (last'.op = "intersect" /\ observing /\ ~observing')]_vars
    /\ [](phase = "mounted" => (observing <=> ~heroInView))

C7_Witness ==
    heroInView /\ ~observing /\ userClicked /\ fetchState = "done" /\ last.op = "motion"

\* C8: formatAddress returns an argument of at most 12 characters unchanged,
\* and for a longer one exactly its first 6 characters, the ellipsis and its
\* last 4 characters.
C8_FormatAddress ==
    fmtOut # Unset =>
        IF Len(fmtIn) <= 12
        THEN fmtOut = fmtIn
        ELSE /\ Len(fmtOut) = 11
             /\ \A i \in 1..6 : fmtOut[i] = fmtIn[i]
             /\ fmtOut[7] = Ellipsis
             /\ \A j \in 1..4 : fmtOut[7 + j] = fmtIn[Len(fmtIn) - 4 + j]

C8_Witness == fmtOut # Unset /\ Len(fmtIn) = 13 /\ Len(fmtOut) = 11 /\ fmtIn[7] # fmtIn[10]

\* C9: a step in which the reduced-motion boolean goes from false to true
\* leaves the user toggle off.
C9_FlipForcesToggleOff == [][(~reduced /\ reduced') => ~performanceMode']_vars

C9_Witness == last.op = "motion" /\ last.pmBefore /\ reduced /\ ~performanceMode

\* C10 as stated: an intersection event changes only heroInView and a
\* reduced-motion change event only the reduced-motion boolean; both leave
\* the user toggle, the collection and the copy indicator unchanged.
C10_OneBooleanEach ==
    /\ [][last'.op = "intersect"
            => UNCHANGED <<reduced, performanceMode, collection, copyVars>>]_vars
    /\ [][last'.op = "motion"
            => UNCHANGED <<heroInView, performanceMode, collection, copyVars>>]_vars

\* C10 amended: a reduced-motion change event also switches the user toggle
\* off when the boolean becomes true, so performanceMode has two writers (the
\* click and the reduced-motion effect); heroInView and the reduced-motion
\* boolean have one each.
C10_Owners ==
    /\ [][last'.op = "intersect"
            => UNCHANGED <<reduced, performanceMode, collection, copyVars>>]_vars
    /\ [][last'.op = "motion"
            => /\ UNCHANGED <<heroInView, collection, copyVars>>
               /\ performanceMode' = (performanceMode /\ ~reduced')]_vars
    /\ [][heroInView' # heroInView => last'.op = "intersect"]_vars
    /\ [][reduced' # reduced => last'.op \in {"mount", "motion"}]_vars
    /\ [][performanceMode' # performanceMode => last'.op \in {"click", "motion"}]_vars

C10_Witness ==
    last.op = "motion" /\ ~reduced /\ last.pmBefore /\ collection # JsonNull /\ copied /\ heroInView

\* C11: whatever the activations and the outcomes and order of their writes,
\* the indicator is false once no revert timer is pending, and an indicator
\* that is true is false again later: it never stays true forever.
C11_IndicatorReverts ==
    /\ [](timers = <<>> => ~copied)
    /\ (copied ~> ~copied)

\* Writes of both outcomes have settled and the last pending timer has run
C11_Witness ==
    /\ last.op = "timer" /\ fulfilled /\ lastWrite = "rejected"
    /\ pendingWrites = 0 /\ timers = <<>> /\ ~copied

====
